---------------------------- MODULE Spec2Model ----------------------------
(***************************************************************************)
(* A model of the goldmark markdown renderer (src/renderer.go).            *)
(*                                                                         *)
(* Bytes are sequences of one-character strings.  A document is a sequence *)
(* of block nodes; headings and paragraphs own a sequence of Text nodes.   *)
(* One render invocation is the depth-first walk of the document: every    *)
(* node's handler is called once entering and once leaving.  Each action   *)
(* below is one call of one registered handler.                            *)
(***************************************************************************)
EXTENDS Integers, Sequences, FiniteSets, TLC

VARIABLES
    Config,     \* Renderer.Config: the style configuration, fixed at construction
    writer,     \* Renderer.writer: the defaultWriter (lastWriteBytes, lastWriteLen)
    doc,        \* the tree being rendered (sequence of block nodes)
    todo,       \* handler calls the walk still has to make, in order
    w,          \* the util.BufWriter of this render invocation
    last,       \* the handler call made most recently and the writes it made
    ret,        \* (ast.WalkStatus, error) returned by that handler call
    entryForm,  \* per block: the heading form its entering call dispatched to
    renders     \* number of render invocations started on this renderer

vars == <<Config, writer, doc, todo, w, last, ret, entryForm, renders>>

-----------------------------------------------------------------------------
(* Bounds of the model.                                                    *)

MaxBlocks == 2      \* blocks in a document
MaxRenders == 2     \* render invocations on one renderer (SpecReuse)
MaxRoom == 4        \* bytes a failing stream accepts before it fails (SpecFail)

Unlimited == 0 - 1  \* room of a stream that never fails

-----------------------------------------------------------------------------
(* Bytes.                                                                  *)

NL == "\n"
SP == " "
TAB == "\t"
BQ == "bq"          \* the backtick byte 0x60, which a TLA+ string cannot hold
Fence == <<BQ, BQ, BQ>>

Repeat(c, n) == [i \in 1..n |-> c]

RECURSIVE TrailingNewlines(_)
TrailingNewlines(b) ==
    IF b = <<>> \/ b[Len(b)] # NL THEN 0
    ELSE 1 + TrailingNewlines(SubSeq(b, 1, Len(b) - 1))

RECURSIVE Concat(_)
Concat(ss) == IF ss = <<>> THEN <<>> ELSE Head(ss) \o Concat(Tail(ss))

-----------------------------------------------------------------------------
(* Configuration (options are not part of renderer.go).                    *)

HeadingStyleATX == "HeadingStyleATX"
HeadingStyleATXSurround == "HeadingStyleATXSurround"
HeadingStyleSetext == "HeadingStyleSetext"
HeadingStyleFullWidthSetext == "HeadingStyleFullWidthSetext"
HeadingStyles ==
    {HeadingStyleATX, HeadingStyleATXSurround, HeadingStyleSetext,
     HeadingStyleFullWidthSetext}

IsSetext(style) == style \in {HeadingStyleSetext, HeadingStyleFullWidthSetext}

ThematicBreakLengthMinimum == 3

ThematicBreakStyles == {0, 1, 2}

IndentStyleSpaces == "IndentStyleSpaces"
IndentStyleTabs == "IndentStyleTabs"

IndentBytes(style) ==
    IF style = IndentStyleSpaces THEN <<SP, SP, SP, SP>> ELSE <<TAB>>


-----------------------------------------------------------------------------
(* The tree (goldmark's ast; the renderer only reads it).                  *)
(* A position is [b |-> block index, t |-> text index]; 0 means "none":    *)
(* [b |-> 0, t |-> 0] is the document, [b |-> i, t |-> 0] its i-th block.  *)

KindDocument == "Document"
KindHeading == "Heading"
KindParagraph == "Paragraph"
KindCodeBlock == "CodeBlock"
KindFencedCodeBlock == "FencedCodeBlock"
KindHTMLBlock == "HTMLBlock"
KindThematicBreak == "ThematicBreak"
KindText == "Text"

DocPos == [b |-> 0, t |-> 0]

Kind(d, pos) ==
    IF pos.b = 0 THEN KindDocument
    ELSE IF pos.t = 0 THEN d[pos.b].kind
    ELSE KindText

\* node.HasChildren()
HasChildren(n) == n.children # <<>>

\* node.NextSibling() != nil
HasNextSibling(d, pos) ==
    IF pos.b = 0 THEN FALSE
    ELSE IF pos.t = 0 THEN pos.b < Len(d)
    ELSE pos.t < Len(d[pos.b].children)

\* ast.Walk: handler(node, entering), the children in order, handler(node, leaving)
TextEvents(i, n) ==
    Concat([j \in 1..n |->
        << [pos |-> [b |-> i, t |-> j], entering |-> TRUE],
           [pos |-> [b |-> i, t |-> j], entering |-> FALSE] >>])

BlockEvents(d, i) ==
    << [pos |-> [b |-> i, t |-> 0], entering |-> TRUE] >>
    \o TextEvents(i, Len(d[i].children))
    \o << [pos |-> [b |-> i, t |-> 0], entering |-> FALSE] >>

Events(d) ==
    << [pos |-> DocPos, entering |-> TRUE] >>
    \o Concat([i \in 1..Len(d) |-> BlockEvents(d, i)])
    \o << [pos |-> DocPos, entering |-> FALSE] >>

-----------------------------------------------------------------------------
(* The output stream of one render invocation (util.BufWriter).            *)
(* room: bytes the stream still accepts (Unlimited: it never fails);       *)
(* err: the stream has failed, and every later write fails too;            *)
(* n: the count the last Write returned; recent: the bytes handed to it.   *)

NewBufWriter(room) ==
    [buf |-> <<>>, room |-> room, err |-> FALSE, n |-> 0, recent |-> <<>>]

BufWrite(bw, p) ==
    IF bw.err
    THEN [bw EXCEPT !.n = 0, !.recent = p]
    ELSE IF bw.room = Unlimited
    THEN [bw EXCEPT !.buf = @ \o p, !.n = Len(p), !.recent = p]
    ELSE IF Len(p) <= bw.room
    THEN [bw EXCEPT !.buf = @ \o p, !.room = @ - Len(p), !.n = Len(p),
                    !.recent = p]
    ELSE [bw EXCEPT !.buf = @ \o SubSeq(p, 1, bw.room), !.room = 0,
                    !.err = TRUE, !.n = bw.room, !.recent = p]

-----------------------------------------------------------------------------
(* A handler call works on a context c:                                    *)
(*   c.w       the output stream                                           *)
(*   c.writer  the renderer's defaultWriter                                *)
(*   c.log     the writes this call has made, in order                     *)
(*   c.form    the heading form this call dispatched to ("" if none)       *)
(*   c.ret     what the call returns                                       *)

WalkContinue == "WalkContinue"
WalkStop == "WalkStop"
NoError == "nil"

NewDefaultWriter == [lastWriteBytes |-> <<>>, lastWriteLen |-> 0]

\* defaultWriter.Write
WriterWrite(c, source) ==
    LET bw == BufWrite(c.w, source) IN
    [c EXCEPT !.w = bw,
              !.writer = [lastWriteBytes |-> source, lastWriteLen |-> bw.n],
              !.log = Append(@, [via |-> "writer", bytes |-> source])]

\* fmt.Fprint(w, ...) and fmt.Fprintf(w, ...): one Write on the stream itself
Fprint(c, bytes) ==
    [c EXCEPT !.w = BufWrite(@, bytes),
              !.log = Append(@, [via |-> "fmt", bytes |-> bytes])]

Return(c, status, err) == [c EXCEPT !.ret = [status |-> status, err |-> err]]

RECURSIVE WriteAll(_, _)
WriteAll(c, ss) ==
    IF ss = <<>> THEN c ELSE WriteAll(WriterWrite(c, Head(ss)), Tail(ss))

\* Renderer.renderBlockSeparator
renderBlockSeparator(c, d, pos) ==
    IF HasNextSibling(d, pos) THEN WriterWrite(c, <<NL, NL>>) ELSE c

\* Renderer.renderDocument
renderDocument(c, cfg, d, pos, entering) ==
    IF ~entering
    THEN LET b == c.writer.lastWriteBytes
             l == c.writer.lastWriteLen
         IN Return(IF l = 0 \/ b[l] # NL THEN WriterWrite(c, <<NL>>) ELSE c,
                   WalkContinue, NoError)
    ELSE Return(c, WalkContinue, NoError)

\* renderATXHeading with the space written after every opening hash run
renderATXHeadingAlwaysSpace(c, cfg, node, d, pos, entering) ==
    LET c0 == [c EXCEPT !.form = "ATX"] IN
    IF entering
    THEN Return(Fprint(Fprint(c0, Repeat("#", node.level)), <<SP>>),
                WalkContinue, NoError)
    ELSE LET c1 == IF cfg.HeadingStyle = HeadingStyleATXSurround
                   THEN Fprint(c0, <<SP>> \o Repeat("#", node.level))
                   ELSE c0
         IN Return(renderBlockSeparator(c1, d, pos), WalkContinue, NoError)

\* Renderer.renderATXHeading
renderATXHeading(c, cfg, node, d, pos, entering) ==
    LET c0 == [c EXCEPT !.form = "ATX"] IN
    IF entering
    THEN LET atxHeadingChars == Repeat("#", node.level)
             c1 == Fprint(c0, atxHeadingChars)
             c2 == IF HasChildren(node) THEN Fprint(c1, <<SP>>) ELSE c1
         IN Return(c2, WalkContinue, NoError)
    ELSE LET atxHeadingChars == Repeat("#", node.level)
             c1 == IF cfg.HeadingStyle = HeadingStyleATXSurround
                   THEN Fprint(c0, <<SP>> \o atxHeadingChars)
                   ELSE c0
         IN Return(renderBlockSeparator(c1, d, pos), WalkContinue, NoError)

\* the loop of renderSetextHeading over node.Lines(), from line i on
RECURSIVE UnderlineWidth(_, _, _)
UnderlineWidth(lines, i, underlineWidth) ==
    IF i > Len(lines) THEN underlineWidth
    ELSE LET lineWidth == Len(lines[i]) IN
         UnderlineWidth(lines, i + 1,
                        IF lineWidth > underlineWidth THEN lineWidth
                        ELSE underlineWidth)

\* renderSetextHeading with the underline widened whatever the style
renderSetextHeadingAlwaysFullWidth(c, cfg, node, d, pos, entering) ==
    LET c0 == [c EXCEPT !.form = "Setext"] IN
    IF entering THEN Return(c0, WalkContinue, NoError)
    ELSE LET underlineChar == <<"=", "-">>[node.level]
             underlineWidth == UnderlineWidth(node.lines, 1, 3)
             c1 == Fprint(c0, <<NL>> \o Repeat(underlineChar, underlineWidth))
         IN Return(renderBlockSeparator(c1, d, pos), WalkContinue, NoError)

\* Renderer.renderSetextHeading
renderSetextHeading(c, cfg, node, d, pos, entering) ==
    LET c0 == [c EXCEPT !.form = "Setext"] IN
    IF entering THEN Return(c0, WalkContinue, NoError)
    ELSE LET underlineChar == <<"=", "-">>[node.level]
             underlineWidth ==
                 IF cfg.HeadingStyle = HeadingStyleFullWidthSetext
                 THEN UnderlineWidth(node.lines, 1, 3)
                 ELSE 3
             c1 == Fprint(c0, <<NL>> \o Repeat(underlineChar, underlineWidth))
         IN Return(renderBlockSeparator(c1, d, pos), WalkContinue, NoError)

\* renderHeading without the rule for headings of several lines
renderHeadingIgnoresLines(c, cfg, d, pos, entering) ==
    LET n == d[pos.b] IN
    IF ~HasChildren(n) \/ n.level > 2
    THEN renderATXHeading(c, cfg, n, d, pos, entering)
    ELSE IF IsSetext(cfg.HeadingStyle)
    THEN renderSetextHeading(c, cfg, n, d, pos, entering)
    ELSE renderATXHeading(c, cfg, n, d, pos, entering)

\* Renderer.renderHeading
renderHeading(c, cfg, d, pos, entering) ==
    LET n == d[pos.b] IN
    IF ~HasChildren(n) \/ n.level > 2
    THEN renderATXHeading(c, cfg, n, d, pos, entering)
    ELSE IF Len(n.lines) > 1
    THEN renderSetextHeading(c, cfg, n, d, pos, entering)
    ELSE IF IsSetext(cfg.HeadingStyle)
    THEN renderSetextHeading(c, cfg, n, d, pos, entering)
    ELSE renderATXHeading(c, cfg, n, d, pos, entering)

\* Renderer.renderParagraph
renderParagraph(c, cfg, d, pos, entering) ==
    Return(IF ~entering THEN renderBlockSeparator(c, d, pos) ELSE c,
           WalkContinue, NoError)

\* Renderer.renderText
renderText(c, cfg, d, pos, entering) ==
    LET n == d[pos.b].children[pos.t] IN
    IF entering
    THEN LET c1 == WriterWrite(c, n.bytes)
             c2 == IF n.soft THEN WriterWrite(c1, <<NL>>) ELSE c1
         IN Return(c2, WalkContinue, NoError)
    ELSE Return(c, WalkContinue, NoError)

\* renderThematicBreak without the minimum length
renderThematicBreakUnclamped(c, cfg, d, pos, entering) ==
    IF entering
    THEN LET breakChar == <<"-", "*", "_">>[cfg.ThematicBreakStyle + 1]
         IN Return(WriterWrite(c, Repeat(breakChar, cfg.ThematicBreakLength)),
                   WalkContinue, NoError)
    ELSE Return(renderBlockSeparator(c, d, pos), WalkContinue, NoError)

\* Renderer.renderThematicBreak
renderThematicBreak(c, cfg, d, pos, entering) ==
    IF entering
    THEN LET breakChar == <<"-", "*", "_">>[cfg.ThematicBreakStyle + 1]
             breakLen ==
                 IF cfg.ThematicBreakLength < ThematicBreakLengthMinimum
                 THEN ThematicBreakLengthMinimum
                 ELSE cfg.ThematicBreakLength
             thematicBreak == Repeat(breakChar, breakLen)
         IN Return(WriterWrite(c, thematicBreak), WalkContinue, NoError)
    ELSE Return(renderBlockSeparator(c, d, pos), WalkContinue, NoError)

\* the loop of renderCodeBlock: the indent, then the line, for every line
RECURSIVE WriteIndented(_, _, _)
WriteIndented(c, indent, lines) ==
    IF lines = <<>> THEN c
    ELSE WriteIndented(WriterWrite(WriterWrite(c, indent), Head(lines)),
                       indent, Tail(lines))

\* Renderer.renderCodeBlock
renderCodeBlock(c, cfg, d, pos, entering) ==
    LET n == d[pos.b] IN
    IF entering
    THEN Return(WriteIndented(c, IndentBytes(cfg.IndentStyle), n.lines),
                WalkContinue, NoError)
    ELSE Return(renderBlockSeparator(c, d, pos), WalkContinue, NoError)

\* renderFencedCodeBlock with the closing fence written after the separator
renderFencedCodeBlockFenceLast(c, cfg, d, pos, entering) ==
    LET n == d[pos.b] IN
    IF entering
    THEN LET c0 == WriterWrite(c, Fence)
             c1 == IF n.language # <<>> THEN WriterWrite(c0, n.language[1])
                   ELSE c0
             c2 == WriterWrite(c1, <<NL>>)
         IN Return(WriteAll(c2, n.lines), WalkContinue, NoError)
    ELSE Return(WriterWrite(renderBlockSeparator(c, d, pos), Fence),
                WalkContinue, NoError)

\* Renderer.renderFencedCodeBlock
renderFencedCodeBlock(c, cfg, d, pos, entering) ==
    LET n == d[pos.b]
        c0 == WriterWrite(c, Fence)
    IN
    IF entering
    THEN LET c1 == IF n.language # <<>> THEN WriterWrite(c0, n.language[1])
                   ELSE c0
             c2 == WriterWrite(c1, <<NL>>)
         IN Return(WriteAll(c2, n.lines), WalkContinue, NoError)
    ELSE Return(renderBlockSeparator(c0, d, pos), WalkContinue, NoError)

\* Renderer.renderHTMLBlock
renderHTMLBlock(c, cfg, d, pos, entering) ==
    LET n == d[pos.b] IN
    IF entering
    THEN Return(WriteAll(c, n.lines), WalkContinue, NoError)
    ELSE LET c1 == IF n.closure # <<>> THEN WriterWrite(c, n.closure[1])
                   ELSE c
         IN Return(renderBlockSeparator(c1, d, pos), WalkContinue, NoError)

\* Renderer.RegisterFuncs: the handler registered for each node kind
Handle(c, cfg, d, ev) ==
    LET k == Kind(d, ev.pos) IN
    CASE k = KindDocument -> renderDocument(c, cfg, d, ev.pos, ev.entering)
      [] k = KindHeading -> renderHeading(c, cfg, d, ev.pos, ev.entering)
      [] k = KindCodeBlock -> renderCodeBlock(c, cfg, d, ev.pos, ev.entering)
      [] k = KindParagraph -> renderParagraph(c, cfg, d, ev.pos, ev.entering)
      [] k = KindThematicBreak ->
             renderThematicBreak(c, cfg, d, ev.pos, ev.entering)
      [] k = KindFencedCodeBlock ->
             renderFencedCodeBlock(c, cfg, d, ev.pos, ev.entering)
      [] k = KindHTMLBlock -> renderHTMLBlock(c, cfg, d, ev.pos, ev.entering)
      [] k = KindText -> renderText(c, cfg, d, ev.pos, ev.entering)

-----------------------------------------------------------------------------
(* Inputs: the configurations and the trees handed to the renderer.        *)

\* NewConfig(): the default of every option
NewConfig ==
    [HeadingStyle |-> HeadingStyleATX,
     ThematicBreakStyle |-> 0,
     ThematicBreakLength |-> ThematicBreakLengthMinimum,
     IndentStyle |-> IndentStyleSpaces]

\* the configurations the options can set
Configs ==
    [HeadingStyle : HeadingStyles,
     ThematicBreakStyle : ThematicBreakStyles,
     ThematicBreakLength : {1, 3, 10},
     IndentStyle : {IndentStyleSpaces, IndentStyleTabs}]

Blk(kind, level, children, lines, language, closure) ==
    [kind |-> kind, level |-> level, children |-> children, lines |-> lines,
     language |-> language, closure |-> closure]

Txt(bytes, soft) == [bytes |-> bytes, soft |-> soft]

Levels == {1, 2, 3}

\* an empty heading, a one-line heading, a heading of two source lines
HeadingShapes ==
    { [children |-> <<>>, lines |-> <<>>],
      [children |-> <<Txt(<<"a", "b", "c", "d">>, FALSE)>>,
       lines |-> << <<"a", "b", "c", "d">> >>],
      [children |-> <<Txt(<<"a", "b", "c", "d">>, TRUE), Txt(<<"e">>, FALSE)>>,
       lines |-> << <<"a", "b", "c", "d">>, <<"e">> >>] }

Headings ==
    { Blk(KindHeading, l, sh.children, sh.lines, <<>>, <<>>) :
        l \in Levels, sh \in HeadingShapes }

Paragraphs == { Blk(KindParagraph, 0, <<Txt(<<"p">>, FALSE)>>, <<>>, <<>>, <<>>) }

\* every stored line of a code block or an HTML block ends in a newline
CodeBlocks ==
    { Blk(KindCodeBlock, 0, <<>>, << <<"x", NL>>, <<"y", NL>> >>, <<>>, <<>>) }

FencedCodeBlocks ==
    { Blk(KindFencedCodeBlock, 0, <<>>, <<>>, <<>>, <<>>),
      Blk(KindFencedCodeBlock, 0, <<>>, << <<"x", NL>> >>, << <<"g", "o">> >>,
          <<>>) }

HTMLBlocks ==
    { Blk(KindHTMLBlock, 0, <<>>, << <<"<", NL>> >>, <<>>, <<>>),
      Blk(KindHTMLBlock, 0, <<>>, << <<"<", NL>> >>, <<>>, << <<">", NL>> >>) }

ThematicBreaks == { Blk(KindThematicBreak, 0, <<>>, <<>>, <<>>, <<>>) }

Blocks ==
    Headings \cup Paragraphs \cup CodeBlocks \cup FencedCodeBlocks
    \cup HTMLBlocks \cup ThematicBreaks

Docs(n) == UNION { [1..k -> Blocks] : k \in 0..n }

HasKind(d, kind) == \E i \in 1..Len(d) : d[i].kind = kind

\* An option is set only when the document has a node whose handler reads it:
\* HeadingStyle is read by the heading handlers only, the thematic break
\* options by renderThematicBreak only, IndentStyle by renderCodeBlock only.
OptionsRead(cfg, d) ==
    /\ HasKind(d, KindHeading) \/ cfg.HeadingStyle = NewConfig.HeadingStyle
    /\ \/ HasKind(d, KindThematicBreak)
       \/ /\ cfg.ThematicBreakStyle = NewConfig.ThematicBreakStyle
          /\ cfg.ThematicBreakLength = NewConfig.ThematicBreakLength
    /\ HasKind(d, KindCodeBlock) \/ cfg.IndentStyle = NewConfig.IndentStyle

-----------------------------------------------------------------------------
(* The state machine.                                                      *)

NoEvent == [pos |-> [b |-> 0 - 1, t |-> 0], entering |-> FALSE]
NoCall == [ev |-> NoEvent, log |-> <<>>, form |-> ""]
NoReturn == [status |-> WalkContinue, err |-> NoError]

\* NewNodeRenderer, then the start of the first render invocation
InitWith(docs, rooms) ==
    /\ doc \in docs
    /\ Config \in { cfg \in Configs : OptionsRead(cfg, doc) }
    /\ writer = NewDefaultWriter
    /\ todo = Events(doc)
    /\ w \in { NewBufWriter(r) : r \in rooms }
    /\ last = NoCall
    /\ ret = NoReturn
    /\ entryForm = [i \in 1..Len(doc) |-> ""]
    /\ renders = 1

Init == InitWith(Docs(MaxBlocks), {Unlimited})

\* the walk is about to call the handler registered for kind
Next_(kind) ==
    /\ todo # <<>>
    /\ ret.status = WalkContinue
    /\ Kind(doc, Head(todo).pos) = kind

Ctx == [w |-> w, writer |-> writer, log |-> <<>>, form |-> "", ret |-> NoReturn]

Called(c) ==
    /\ w' = c.w
    /\ writer' = c.writer
    /\ last' = [ev |-> Head(todo), log |-> c.log, form |-> c.form]
    /\ ret' = c.ret
    /\ todo' = Tail(todo)
    /\ entryForm' =
         IF Head(todo).entering /\ Kind(doc, Head(todo).pos) = KindHeading
         THEN [entryForm EXCEPT ![Head(todo).pos.b] = c.form]
         ELSE entryForm
    /\ UNCHANGED <<Config, doc, renders>>

RenderDocument ==
    /\ Next_(KindDocument)
    /\ Called(renderDocument(Ctx, Config, doc, Head(todo).pos, Head(todo).entering))

RenderHeading ==
    /\ Next_(KindHeading)
    /\ Called(renderHeading(Ctx, Config, doc, Head(todo).pos, Head(todo).entering))

RenderCodeBlock ==
    /\ Next_(KindCodeBlock)
    /\ Called(renderCodeBlock(Ctx, Config, doc, Head(todo).pos, Head(todo).entering))

RenderParagraph ==
    /\ Next_(KindParagraph)
    /\ Called(renderParagraph(Ctx, Config, doc, Head(todo).pos, Head(todo).entering))

RenderThematicBreak ==
    /\ Next_(KindThematicBreak)
    /\ Called(renderThematicBreak(Ctx, Config, doc, Head(todo).pos, Head(todo).entering))

RenderFencedCodeBlock ==
    /\ Next_(KindFencedCodeBlock)
    /\ Called(renderFencedCodeBlock(Ctx, Config, doc, Head(todo).pos, Head(todo).entering))

RenderHTMLBlock ==
    /\ Next_(KindHTMLBlock)
    /\ Called(renderHTMLBlock(Ctx, Config, doc, Head(todo).pos, Head(todo).entering))

RenderText ==
    /\ Next_(KindText)
    /\ Called(renderText(Ctx, Config, doc, Head(todo).pos, Head(todo).entering))

Next ==
    \/ RenderDocument
    \/ RenderHeading
    \/ RenderCodeBlock
    \/ RenderParagraph
    \/ RenderThematicBreak
    \/ RenderFencedCodeBlock
    \/ RenderHTMLBlock
    \/ RenderText

Spec == Init /\ [][Next]_vars

\* the same render on an output stream that fails after accepting a few bytes
InitFail == InitWith(Docs(MaxBlocks), 0..MaxRoom)

SpecFail == InitFail /\ [][Next]_vars

\* renderer.Render called again on the same renderer: a new tree and a new
\* output stream; NewNodeRenderer made r.writer once and nothing resets it
Render ==
    /\ todo = <<>>
    /\ renders < MaxRenders
    /\ doc' \in Docs(1)
    /\ todo' = Events(doc')
    /\ w' = NewBufWriter(Unlimited)
    /\ last' = NoCall
    /\ ret' = NoReturn
    /\ entryForm' = [i \in 1..Len(doc') |-> ""]
    /\ renders' = renders + 1
    /\ UNCHANGED <<Config, writer>>

NextReuse == Next \/ Render

SpecReuse == Init /\ [][NextReuse]_vars

-----------------------------------------------------------------------------
(* What the properties below read off a state.                             *)

Done == todo = <<>>

\* the bytes the most recent handler call wrote, in order
Written == Concat([i \in 1..Len(last.log) |-> last.log[i].bytes])

\* the most recent call was made on a block node of this kind
CalledOn(kind) ==
    /\ last.ev.pos.b > 0
    /\ last.ev.pos.t = 0
    /\ doc[last.ev.pos.b].kind = kind

CalledNode == doc[last.ev.pos.b]

\* what the block separator policy owes after the node of the most recent call
Separator == IF HasNextSibling(doc, last.ev.pos) THEN <<NL, NL>> ELSE <<>>

Max(a, b) == IF a >= b THEN a ELSE b

\* the largest width of any line, 0 when there is none
WidestLine(lines) ==
    IF lines = <<>> THEN 0
    ELSE CHOOSE m \in { Len(lines[i]) : i \in 1..Len(lines) } :
             \A i \in 1..Len(lines) : Len(lines[i]) <= m

\* one complete render of d by a renderer made just now
RECURSIVE RenderAll(_, _, _, _)
RenderAll(c, cfg, d, evs) ==
    IF evs = <<>> \/ c.ret.status # WalkContinue THEN c
    ELSE RenderAll(Handle([c EXCEPT !.log = <<>>, !.form = ""], cfg, d, Head(evs)),
                   cfg, d, Tail(evs))

FreshOutput(cfg, d) ==
    RenderAll([w |-> NewBufWriter(Unlimited), writer |-> NewDefaultWriter,
               log |-> <<>>, form |-> "", ret |-> NoReturn],
              cfg, d, Events(d)).w.buf

-----------------------------------------------------------------------------
(* C1: the bytes of one complete render end in exactly one newline: the    *)
(* last byte is a newline and the byte before it, if any, is not.          *)
C1_OneTrailingNewline == Done => TrailingNewlines(w.buf) = 1

(* C2: leaving a block that has a next sibling, the output ends in exactly *)
(* two newlines (one blank line), never three or more; leaving the last    *)
(* sibling, no blank line is written.                                      *)
C2_OneBlankLine ==
    (last.ev.pos.b > 0 /\ last.ev.pos.t = 0 /\ ~last.ev.entering) =>
        IF HasNextSibling(doc, last.ev.pos)
        THEN TrailingNewlines(w.buf) = 2
        ELSE \A i \in 1..Len(last.log) : last.log[i].bytes # <<NL, NL>>

(* C3: a heading without children or of level above 2 is rendered in the  *)
(* ATX form whatever the style; otherwise a heading of more than one line  *)
(* is rendered in the Setext form whatever the style; otherwise the        *)
(* configured style decides; and the leaving call of a heading takes the   *)
(* form its entering call took.                                            *)
C3_HeadingForm ==
    CalledOn(KindHeading) =>
        LET n == CalledNode IN
        /\ (n.children = <<>> \/ n.level > 2) => last.form = "ATX"
        /\ (n.children # <<>> /\ n.level <= 2 /\ Len(n.lines) > 1) =>
               last.form = "Setext"
        /\ (n.children # <<>> /\ n.level <= 2 /\ Len(n.lines) <= 1) =>
               last.form = (IF IsSetext(Config.HeadingStyle) THEN "Setext"
                            ELSE "ATX")
        /\ last.form = entryForm[last.ev.pos.b]

\* a two-line heading taking the Setext form under an ATX style, on leaving
C3_Witness ==
    /\ CalledOn(KindHeading)
    /\ ~last.ev.entering
    /\ Len(CalledNode.lines) > 1
    /\ Config.HeadingStyle = HeadingStyleATX
    /\ last.form = "Setext"

(* C4: once a write to the output stream has failed, the handler call in   *)
(* which it failed returns the stop directive with an error.               *)
C4_WriteFailureStops ==
    w.err => (ret.status = WalkStop /\ ret.err # NoError)

(* C5: the last-write memory is empty at the start of every render         *)
(* invocation, and a render's bytes are those a renderer made just now     *)
(* gives for the same tree and configuration.                              *)
C5_RendersIndependent ==
    /\ (last = NoCall /\ todo # <<>>) => writer.lastWriteLen = 0
    /\ Done => w.buf = FreshOutput(Config, doc)

(* C6: entering a thematic break the renderer writes exactly               *)
(* max(configured length, 3) copies of the configured glyph and nothing    *)
(* else (length 1 gives 3 glyphs, length 10 gives 10); leaving it, it      *)
(* writes the block separator only.                                        *)
C6_ThematicBreak ==
    CalledOn(KindThematicBreak) =>
        LET glyph == CASE Config.ThematicBreakStyle = 0 -> "-"
                       [] Config.ThematicBreakStyle = 1 -> "*"
                       [] Config.ThematicBreakStyle = 2 -> "_"
        IN
        IF last.ev.entering
        THEN /\ Len(Written) = Max(Config.ThematicBreakLength, 3)
             /\ \A i \in 1..Len(Written) : Written[i] = glyph
             /\ Config.ThematicBreakLength = 1 => Len(Written) = 3
             /\ Config.ThematicBreakLength = 10 => Len(Written) = 10
        ELSE Written = Separator

\* a thematic break of configured length 1 written as three asterisks
C6_Witness ==
    /\ CalledOn(KindThematicBreak)
    /\ last.ev.entering
    /\ Config.ThematicBreakLength = 1
    /\ Written = <<"*", "*", "*">>

(* C7: a heading in the Setext form writes nothing on entry; on exit it    *)
(* writes a newline, a run of '=' (level 1) or '-' (level 2), then the     *)
(* block separator.  The run is 3 long unless the full-width style is      *)
(* configured, when it is the maximum of 3 and the widest source line; so  *)
(* a heading forced into this form under an ATX style gets exactly 3.      *)
C7_SetextHeading ==
    (CalledOn(KindHeading) /\ last.form = "Setext") =>
        LET n == CalledNode
            char == IF n.level = 1 THEN "=" ELSE "-"
            run == IF Config.HeadingStyle = HeadingStyleFullWidthSetext
                   THEN Max(3, WidestLine(n.lines))
                   ELSE 3
        IN
        IF last.ev.entering THEN Written = <<>>
        ELSE /\ n.level \in {1, 2}
             /\ run >= 3
             /\ Written = <<NL>> \o Repeat(char, run) \o Separator
             /\ Config.HeadingStyle \in {HeadingStyleATX, HeadingStyleATXSurround}
                    => Len(Written) = 1 + 3 + Len(Separator)

\* a full-width underline longer than the minimum, under a level-2 heading
C7_Witness ==
    /\ CalledOn(KindHeading)
    /\ last.form = "Setext"
    /\ ~last.ev.entering
    /\ Config.HeadingStyle = HeadingStyleFullWidthSetext
    /\ Written = <<NL, "-", "-", "-", "-", NL, NL>>

(* C8: a heading in the ATX form writes on entry exactly level '#' bytes,  *)
(* then one space iff it has children; on exit it writes a space and the   *)
(* same run iff the style is the surround style, and in both cases the     *)
(* block separator once after it.                                          *)
C8_ATXHeading ==
    (CalledOn(KindHeading) /\ last.form = "ATX") =>
        LET n == CalledNode
            hashes == Repeat("#", n.level)
        IN
        IF last.ev.entering
        THEN Written = hashes \o (IF n.children # <<>> THEN <<SP>> ELSE <<>>)
        ELSE Written =
                 (IF Config.HeadingStyle = HeadingStyleATXSurround
                  THEN <<SP>> \o hashes ELSE <<>>)
                 \o Separator

\* an empty heading entered: the bare hash run
C8_Witness ==
    /\ CalledOn(KindHeading)
    /\ last.form = "ATX"
    /\ last.ev.entering
    /\ CalledNode.children = <<>>
    /\ Written = <<"#", "#">>

(* C9: for a fenced code block the entering call writes the opening fence, *)
(* the language tag if there is one, a newline and every stored line in    *)
(* order; the leaving call writes the closing fence and then the block     *)
(* separator: one fence per call, no line after the closing fence, no      *)
(* separator before it.                                                    *)
C9_FencedCodeBlock ==
    CalledOn(KindFencedCodeBlock) =>
        LET n == CalledNode IN
        IF last.ev.entering
        THEN Written = Fence \o Concat(n.language) \o <<NL>> \o Concat(n.lines)
        ELSE Written = Fence \o Separator

\* the closing fence of a tagged block, followed by the separator
C9_Witness ==
    /\ CalledOn(KindFencedCodeBlock)
    /\ ~last.ev.entering
    /\ CalledNode.language # <<>>
    /\ Written = <<BQ, BQ, BQ, NL, NL>>

(* C10: the last-write memory holds the bytes and the length of the most   *)
(* recent write made to the output stream.                                 *)
C10_LastWriteIsMostRecent ==
    /\ writer.lastWriteBytes = w.recent
    /\ writer.lastWriteLen = w.n

=============================================================================
